---------------------------- MODULE Spec2Model ----------------------------
(***************************************************************************)
(* Website knowledge base (backend/services/website_kb.py): the source     *)
(* document, the chunker, the embedding adapter, the index builder, the    *)
(* index loader and the searcher, with the two files they persist.         *)
(*                                                                         *)
(* Strings are sequences of one-character strings.  A file is a record     *)
(* [exists, data].  The index file holds the JSON text of the payload as a *)
(* sequence of JSON tokens (json_dumps writes them, json_loads parses      *)
(* them), so that an interrupted write leaves a prefix that does not parse.*)
(***************************************************************************)
EXTENDS Integers, Sequences, FiniteSets, TLC

VARIABLES srcFile, idxFile, siteDb, apiKey, providerDown, last, inflight

vars == <<srcFile, idxFile, siteDb, apiKey, providerDown, last, inflight>>

(***************************************************************************)
(* Bounds of the model.                                                    *)
(***************************************************************************)
\* _chunk_text's defaults max_chars=1200 and overlap=150, scaled down so
\* that documents of a few characters cross the limits.
MaxChars == 4
Overlap == 1
\* datetime.utcnow() is read as one of the instants 0..MaxClock.
MaxClock == 1
\* The largest number of chunks of an index the searcher is started on, and
\* the number of leading chunks whose embeddings vary freely (those of the
\* later chunks repeat them in turn).
MaxIndexChunks == 11
PatternLen == 4
\* f.write hands the text to the file a buffer at a time (8192 bytes in
\* CPython): WriteBlock characters of a document or tokens of the index.
WriteBlock == 4
\* The number of calls that may overlap in time.
MaxProcs == 2
\* The longest document the chunker is run on by itself.
MaxTextLen == 5
\* The largest number of components of a vector handed to _cosine_similarity
\* by itself, and of chunks of the indexes it is searched in.
MaxDim == 2
MaxCosineChunks == 2

(***************************************************************************)
(* Program constants.                                                      *)
(***************************************************************************)
\* search_kb: top_k defaults to 3 and is clamped by max(1, min(top_k, 10)).
TopKDefault == 3
TopKMin == 1
TopKMax == 10

(***************************************************************************)
(* Strings.                                                                *)
(***************************************************************************)
NL == "\n"
SP == " "
CR == "\r"
Whitespace == {NL, SP, CR}

Min(a, b) == IF a <= b THEN a ELSE b
Max(a, b) == IF a >= b THEN a ELSE b

\* s[from : to] of Python with 0-based from (inclusive) and to (exclusive),
\* both already within 0..len.
Slice(s, from, to) == IF to <= from THEN <<>> ELSE SubSeq(s, from + 1, to)

\* str.strip(): leading and trailing whitespace removed.
RECURSIVE lstrip(_)
lstrip(s) ==
    IF s = <<>> THEN <<>>
    ELSE IF Head(s) \in Whitespace THEN lstrip(Tail(s)) ELSE s

RECURSIVE rstrip(_)
rstrip(s) ==
    IF s = <<>> THEN <<>>
    ELSE IF s[Len(s)] \in Whitespace THEN rstrip(SubSeq(s, 1, Len(s) - 1)) ELSE s

strip(s) == rstrip(lstrip(s))

\* str.split('\n'): the pieces between newlines, empty ones included.
RECURSIVE split_acc(_, _, _)
split_acc(s, cur, acc) ==
    IF s = <<>> THEN Append(acc, cur)
    ELSE IF Head(s) = NL THEN split_acc(Tail(s), <<>>, Append(acc, cur))
    ELSE split_acc(Tail(s), Append(cur, Head(s)), acc)

split_lines(s) == split_acc(s, <<>>, <<>>)

\* [p.strip() for p in text.split('\n') if p.strip()]
RECURSIVE stripped_nonempty(_)
stripped_nonempty(ps) ==
    IF ps = <<>> THEN <<>>
    ELSE IF strip(Head(ps)) = <<>> THEN stripped_nonempty(Tail(ps))
    ELSE <<strip(Head(ps))>> \o stripped_nonempty(Tail(ps))

paragraphs_of(text) == stripped_nonempty(split_lines(text))

\* "\n".join(parts)
RECURSIVE join_lines(_)
join_lines(parts) ==
    IF parts = <<>> THEN <<>>
    ELSE IF Len(parts) = 1 THEN parts[1]
    ELSE parts[1] \o <<NL>> \o join_lines(Tail(parts))

(***************************************************************************)
(* _chunk_text.                                                            *)
(***************************************************************************)
\* for i in range(0, len(p), max_chars): chunks.append(p[i:i + max_chars])
RECURSIVE hard_split(_, _)
hard_split(p, max_chars) ==
    IF p = <<>> THEN <<>>
    ELSE <<Slice(p, 0, Min(max_chars, Len(p)))>>
             \o hard_split(Slice(p, Min(max_chars, Len(p)), Len(p)), max_chars)

\* The paragraph loop testing len(current) + len(p) <= max_chars, the
\* newline that joins them forgotten.
RECURSIVE paragraph_pass_no_separator(_, _, _)
paragraph_pass_no_separator(ps, st, max_chars) ==
    IF ps = <<>> THEN st
    ELSE LET p == Head(ps)
             flushed == IF st.current # <<>> THEN Append(st.chunks, st.current)
                        ELSE st.chunks
         IN  IF Len(st.current) + Len(p) <= max_chars
             THEN paragraph_pass_no_separator(Tail(ps),
                      [chunks |-> st.chunks,
                       current |-> strip(st.current \o <<NL>> \o p)], max_chars)
             ELSE IF Len(p) <= max_chars
             THEN paragraph_pass_no_separator(Tail(ps),
                      [chunks |-> flushed, current |-> p], max_chars)
             ELSE paragraph_pass_no_separator(Tail(ps),
                      [chunks |-> flushed \o hard_split(p, max_chars),
                       current |-> <<>>], max_chars)

\* The paragraph loop testing len(current) + len(p) + 1 < max_chars: a
\* paragraph that fills the buffer to max_chars exactly starts a new chunk.
RECURSIVE paragraph_pass_strict(_, _, _)
paragraph_pass_strict(ps, st, max_chars) ==
    IF ps = <<>> THEN st
    ELSE LET p == Head(ps)
             flushed == IF st.current # <<>> THEN Append(st.chunks, st.current)
                        ELSE st.chunks
         IN  IF Len(st.current) + Len(p) + 1 < max_chars
             THEN paragraph_pass_strict(Tail(ps),
                      [chunks |-> st.chunks,
                       current |-> strip(st.current \o <<NL>> \o p)], max_chars)
             ELSE IF Len(p) <= max_chars
             THEN paragraph_pass_strict(Tail(ps),
                      [chunks |-> flushed, current |-> p], max_chars)
             ELSE paragraph_pass_strict(Tail(ps),
                      [chunks |-> flushed \o hard_split(p, max_chars),
                       current |-> <<>>], max_chars)

\* The paragraph loop: st = [chunks, current] after the paragraphs seen.
RECURSIVE paragraph_pass(_, _, _)
paragraph_pass(ps, st, max_chars) ==
    IF ps = <<>> THEN st
    ELSE LET p == Head(ps)
             flushed == IF st.current # <<>> THEN Append(st.chunks, st.current)
                        ELSE st.chunks
         IN  IF Len(st.current) + Len(p) + 1 <= max_chars
             THEN paragraph_pass(Tail(ps),
                      [chunks |-> st.chunks,
                       current |-> strip(st.current \o <<NL>> \o p)], max_chars)
             ELSE IF Len(p) <= max_chars
             THEN paragraph_pass(Tail(ps),
                      [chunks |-> flushed, current |-> p], max_chars)
             ELSE paragraph_pass(Tail(ps),
                      [chunks |-> flushed \o hard_split(p, max_chars),
                       current |-> <<>>], max_chars)

\* The chunks before the overlap step (lines 68-85).
pre_overlap_chunks(text, max_chars) ==
    IF text = <<>> THEN <<>>
    ELSE LET st == paragraph_pass(paragraphs_of(text),
                                  [chunks |-> <<>>, current |-> <<>>], max_chars)
         IN  IF st.current # <<>> THEN Append(st.chunks, st.current) ELSE st.chunks

\* tail = prev: the whole of the previous chunk is carried over.
overlap_tail_whole(prev, overlap) == prev

\* tail = prev[:overlap]: the head of the previous chunk in place of its tail.
overlap_tail_head(prev, overlap) ==
    IF Len(prev) > overlap THEN Slice(prev, 0, overlap) ELSE prev

\* tail = prev[-overlap:] if len(prev) > overlap else prev
overlap_tail(prev, overlap) ==
    IF Len(prev) > overlap THEN Slice(prev, Len(prev) - overlap, Len(prev)) ELSE prev

\* The overlap step (lines 87-98).
add_overlap(chunks, overlap) ==
    IF overlap > 0 /\ Len(chunks) > 1
    THEN [i \in 1..Len(chunks) |->
            IF i = 1 THEN chunks[1]
            ELSE strip(overlap_tail(chunks[i - 1], overlap) \o <<NL>> \o chunks[i])]
    ELSE chunks

_chunk_text(text, max_chars, overlap) ==
    add_overlap(pre_overlap_chunks(text, max_chars), overlap)

(***************************************************************************)
(* Files: _read_file and _write_file.                                      *)
(***************************************************************************)
NoFile == [exists |-> FALSE, data |-> <<>>]
FileOf(content) == [exists |-> TRUE, data |-> content]

\* _read_file: the content, '' when the file does not exist.
_read_file(file) == IF file.exists THEN file.data ELSE <<>>

\* open(path, 'r') reads in text mode with universal newlines: f.read() gives
\* "\n" for each "\r\n" and for each other "\r" of the file.  (open(path,
\* 'w') writes "\n" as os.linesep, which is "\n" itself on POSIX.)  The text
\* json.dumps writes holds no "\r" and no "\n": its tokens are read as they
\* are.
RECURSIVE universal_newlines(_)
universal_newlines(s) ==
    IF s = <<>> THEN <<>>
    ELSE IF Head(s) = CR
    THEN IF Len(s) >= 2 /\ s[2] = NL
         THEN <<NL>> \o universal_newlines(Tail(Tail(s)))
         ELSE <<NL>> \o universal_newlines(Tail(s))
    ELSE <<Head(s)>> \o universal_newlines(Tail(s))

\* _write_file with the file opened in mode 'a': the old text stays in front.
_write_file_append(file, content, written) ==
    FileOf(file.data \o Slice(content, 0, written))

\* _write_file on the file as it is: open(path, 'w') truncates it and
\* f.write(content) fills it.  `written` is how much of content reached the
\* file: all of it when the call returns, less when the write is cut short
\* (an OSError, a killed process), which leaves the prefix behind.
_write_file(file, content, written) == FileOf(Slice(content, 0, written))

\* How far a write of content can get: nothing after the truncation, whole
\* buffers, all of it.
WritePoints(content) ==
    {k \in 0..Len(content) : k = Len(content) \/ k % WriteBlock = 0}

write_completed(content, written) == written = Len(content)

\* _write_file one system call at a time, as calls that overlap in time see it.
\* open(path, 'w') creates the file or truncates it to nothing.
open_truncate(file) == FileOf(<<>>)

\* What is read at a position that was never written: a writer whose file
\* was truncated under it writes at its own position, past the end.
\* It reads as a NUL character of the document, a NUL token of the index.
Hole(op) == IF op = "build" THEN [t |-> "NUL"] ELSE "NUL"

\* One write of f.write at the writer's own position pos: block replaces what
\* the file holds from there on, and what lies after the block stays.
write_at(file, pos, block, hole) ==
    LET padded == file.data \o [i \in 1..(pos - Len(file.data)) |-> hole]
    IN  FileOf(SubSeq(padded, 1, pos) \o block
               \o SubSeq(padded, pos + Len(block) + 1, Len(padded)))

\* The next buffer of content that a writer at pos hands to the file.
next_block(content, pos) == Slice(content, pos, Min(pos + WriteBlock, Len(content)))

(***************************************************************************)
(* Site settings and get_kb_source_text.                                   *)
(***************************************************************************)
\* The labels of get_kb_source_text ("Contact email: " and the others),
\* each abbreviated to a letter and a colon.
label_app_description_fa == <<"F", ":">>
label_app_description_en == <<"D", ":">>
label_contact_email == <<"E", ":">>
label_contact_phone == <<"P", ":">>
label_address_fa == <<"R", ":">>
label_address_en == <<"A", ":">>

EmptyRow ==
    [app_description_fa |-> <<>>, app_description_en |-> <<>>,
     contact_email |-> <<>>, contact_phone |-> <<>>,
     address_fa |-> <<>>, address_en |-> <<>>]

\* The SiteSettings table as the service finds it: unreachable (the import or
\* the query raises), without a row, or with its first row.
DbDown == [up |-> FALSE, hasRow |-> FALSE, row |-> EmptyRow]
DbNoRow == [up |-> TRUE, hasRow |-> FALSE, row |-> EmptyRow]
DbRow(r) == [up |-> TRUE, hasRow |-> TRUE, row |-> r]

\* parts, in the order of the six ifs (lines 41-53).
site_parts(row) ==
    (IF row.app_description_fa # <<>>
       THEN <<label_app_description_fa \o row.app_description_fa>> ELSE <<>>)
    \o (IF row.app_description_en # <<>>
       THEN <<label_app_description_en \o row.app_description_en>> ELSE <<>>)
    \o (IF row.contact_email # <<>>
       THEN <<label_contact_email \o row.contact_email>> ELSE <<>>)
    \o (IF row.contact_phone # <<>>
       THEN <<label_contact_phone \o row.contact_phone>> ELSE <<>>)
    \o (IF row.address_fa # <<>>
       THEN <<label_address_fa \o row.address_fa>> ELSE <<>>)
    \o (IF row.address_en # <<>>
       THEN <<label_address_en \o row.address_en>> ELSE <<>>)

\* get_kb_source_text with "except Exception: return ''" for its "pass": a
\* failure of the site settings loses the document.
get_kb_source_text_drop_on_error(src, db) ==
    LET base_text == universal_newlines(_read_file(src))
    IN  IF ~db.up THEN <<>>
        ELSE IF db.hasRow /\ site_parts(db.row) # <<>>
        THEN base_text \o <<NL, NL>> \o join_lines(site_parts(db.row))
        ELSE base_text

get_kb_source_text(src, db) ==
    LET base_text == universal_newlines(_read_file(src))
    IN  IF db.up /\ db.hasRow /\ site_parts(db.row) # <<>>
        THEN base_text \o <<NL, NL>> \o join_lines(site_parts(db.row))
        ELSE base_text

(***************************************************************************)
(* The embedding adapter: _generate_embedding.                             *)
(***************************************************************************)
\* The vectors the provider answers with (1536 dimensions in the code, 2
\* here), and its answers: a vector, or a failure of the call.
Vectors == {<<1, 0>>, <<0, 1>>}
\* The embeddings found in an index that earlier rebuilds stored.
IndexVectors == {<<1, 0>>, <<1, 1>>, <<-1, 0>>}
ProviderFailure == [ok |-> FALSE, vec |-> <<>>]
ProviderAnswer(v) == [ok |-> TRUE, vec |-> v]

\* What the provider may answer to one call: only failures when it is down.
ProviderResponses(down) ==
    IF down THEN {ProviderFailure}
    ELSE {ProviderFailure} \cup {ProviderAnswer(v) : v \in Vectors}

\* The answers to the n calls of one rebuild.  The rebuild stops at the first
\* failure, so the answers it never asks for are written as failures.
ResponseSeqs(n, down) ==
    {resps \in [1..n -> ProviderResponses(down)] :
        \A i \in 1..n : ~resps[i].ok => \A j \in i..n : ~resps[j].ok}

\* _generate_embedding answering a zero vector where it should raise.
_generate_embedding_swallow(key, resp) ==
    IF key /\ resp.ok
    THEN [ok |-> TRUE, err |-> "", vec |-> resp.vec, calls |-> 1]
    ELSE [ok |-> TRUE, err |-> "", vec |-> <<0, 0>>, calls |-> IF key THEN 1 ELSE 0]

\* _generate_embedding with the test of the key inside its try block: the
\* ValueError is caught and raised again as a RuntimeError.
_generate_embedding_key_in_try(key, resp) ==
    IF ~key THEN [ok |-> FALSE, err |-> "RuntimeError", vec |-> <<>>, calls |-> 0]
    ELSE IF ~resp.ok
         THEN [ok |-> FALSE, err |-> "RuntimeError", vec |-> <<>>, calls |-> 1]
         ELSE [ok |-> TRUE, err |-> "", vec |-> resp.vec, calls |-> 1]

\* _generate_embedding: ValueError without a key, before any call to the
\* provider; RuntimeError when the call fails; the vector otherwise.
_generate_embedding(key, resp) ==
    IF ~key THEN [ok |-> FALSE, err |-> "ValueError", vec |-> <<>>, calls |-> 0]
    ELSE IF ~resp.ok
         THEN [ok |-> FALSE, err |-> "RuntimeError", vec |-> <<>>, calls |-> 1]
         ELSE [ok |-> TRUE, err |-> "", vec |-> resp.vec, calls |-> 1]

(***************************************************************************)
(* JSON: json.dumps of the payload and json.loads of the file's text.      *)
(***************************************************************************)
LBrace == [t |-> "{"]
RBrace == [t |-> "}"]
LBracket == [t |-> "chunks:["]
RBracket == [t |-> "]"]
UpdatedAtTok(v) == [t |-> "updated_at", v |-> v]
CountTok(v) == [t |-> "count", v |-> v]
ChunkTok(ch) ==
    [t |-> "chunk", id |-> ch.id, text |-> ch.text, embedding |-> ch.embedding]

\* json.dumps of the payload without its 'updated_at', read back as 0.
json_dumps_no_updated_at(payload) ==
    <<LBrace, UpdatedAtTok(0), CountTok(payload.count), LBracket>>
    \o [i \in 1..Len(payload.chunks) |-> ChunkTok(payload.chunks[i])]
    \o <<RBracket, RBrace>>

\* {"updated_at": ..., "count": ..., "chunks": [{...}, ...]}
json_dumps(payload) ==
    <<LBrace, UpdatedAtTok(payload.updated_at), CountTok(payload.count), LBracket>>
    \o [i \in 1..Len(payload.chunks) |-> ChunkTok(payload.chunks[i])]
    \o <<RBracket, RBrace>>

\* json.loads: the payload, or a JSONDecodeError when the text is not one
\* complete object.
json_loads(raw) ==
    LET n == Len(raw)
        wellformed ==
            /\ n >= 6
            /\ raw[1] = LBrace
            /\ raw[2].t = "updated_at"
            /\ raw[3].t = "count"
            /\ raw[4] = LBracket
            /\ \A i \in 5..(n - 2) : raw[i].t = "chunk"
            /\ raw[n - 1] = RBracket
            /\ raw[n] = RBrace
    IN  IF wellformed
        THEN [ok |-> TRUE,
              value |-> [updated_at |-> raw[2].v,
                         count |-> raw[3].v,
                         chunks |-> [i \in 1..(n - 6) |->
                                       [id |-> raw[i + 4].id,
                                        text |-> raw[i + 4].text,
                                        embedding |-> raw[i + 4].embedding]]]]
        ELSE [ok |-> FALSE, value |-> <<>>]

(***************************************************************************)
(* Optional values: None and a value.                                      *)
(***************************************************************************)
\* Raised is an exception leaving the function instead of a value.
None == [raised |-> FALSE, isNone |-> TRUE, value |-> <<>>]
Some(v) == [raised |-> FALSE, isNone |-> FALSE, value |-> v]
Raised == [raised |-> TRUE, isNone |-> TRUE, value |-> <<>>]

(***************************************************************************)
(* build_kb_index and load_kb_index.                                       *)
(***************************************************************************)
\* The loop with a failed embedding skipped (try / except: continue), so that
\* the chunks that got an embedding are kept.
RECURSIVE embed_chunks_skip_failed(_, _, _, _, _)
embed_chunks_skip_failed(chunks, key, resps, idx, acc) ==
    IF idx >= Len(chunks)
    THEN [ok |-> TRUE, err |-> "", index_chunks |-> acc.index_chunks,
          calls |-> acc.calls]
    ELSE LET e == _generate_embedding(key, resps[idx + 1])
         IN  embed_chunks_skip_failed(chunks, key, resps, idx + 1,
                 [index_chunks |->
                     IF e.ok
                     THEN Append(acc.index_chunks,
                                 [id |-> idx + 1, text |-> chunks[idx + 1],
                                  embedding |-> e.vec])
                     ELSE acc.index_chunks,
                  calls |-> acc.calls + e.calls])

\* The loop with 'id': idx in place of 'id': idx + 1.
RECURSIVE embed_chunks_zero_based(_, _, _, _, _)
embed_chunks_zero_based(chunks, key, resps, idx, acc) ==
    IF idx >= Len(chunks)
    THEN [ok |-> TRUE, err |-> "", index_chunks |-> acc.index_chunks,
          calls |-> acc.calls]
    ELSE LET e == _generate_embedding(key, resps[idx + 1])
         IN  IF ~e.ok
             THEN [ok |-> FALSE, err |-> e.err,
                   index_chunks |-> acc.index_chunks,
                   calls |-> acc.calls + e.calls]
             ELSE embed_chunks_zero_based(chunks, key, resps, idx + 1,
                      [index_chunks |->
                          Append(acc.index_chunks,
                                 [id |-> idx, text |-> chunks[idx + 1],
                                  embedding |-> e.vec]),
                       calls |-> acc.calls + e.calls])

\* The loop of build_kb_index (lines 130-137): one embedding per chunk, in
\* order; the first failure propagates out of the loop.
RECURSIVE embed_chunks(_, _, _, _, _)
embed_chunks(chunks, key, resps, idx, acc) ==
    IF idx >= Len(chunks)
    THEN [ok |-> TRUE, err |-> "", index_chunks |-> acc.index_chunks,
          calls |-> acc.calls]
    ELSE LET e == _generate_embedding(key, resps[idx + 1])
         IN  IF ~e.ok
             THEN [ok |-> FALSE, err |-> e.err,
                   index_chunks |-> acc.index_chunks,
                   calls |-> acc.calls + e.calls]
             ELSE embed_chunks(chunks, key, resps, idx + 1,
                      [index_chunks |->
                          Append(acc.index_chunks,
                                 [id |-> idx + 1, text |-> chunks[idx + 1],
                                  embedding |-> e.vec]),
                       calls |-> acc.calls + e.calls])

\* payload = {'updated_at': ..., 'count': len(index_chunks), 'chunks': ...}
build_payload(index_chunks, now) ==
    [updated_at |-> now, count |-> Len(index_chunks), chunks |-> index_chunks]

\* build_kb_index refusing a source text without chunks ("nothing to index").
build_kb_index_reject_empty(src, db, key, resps, now) ==
    LET text == get_kb_source_text(src, db)
        chunks == _chunk_text(text, MaxChars, Overlap)
        loop == embed_chunks(chunks, key, resps, 0,
                             [index_chunks |-> <<>>, calls |-> 0])
        payload == build_payload(loop.index_chunks, now)
    IN  [ok |-> loop.ok /\ chunks # <<>>,
         err |-> IF chunks = <<>> THEN "ValueError" ELSE loop.err,
         text |-> text, calls |-> loop.calls,
         payload |-> payload, blob |-> json_dumps(payload)]

\* build_kb_index up to its write: what it returns or raises, and the text it
\* hands to _write_file when the loop ends without an error.
build_kb_index(src, db, key, resps, now) ==
    LET text == get_kb_source_text(src, db)
        chunks == _chunk_text(text, MaxChars, Overlap)
        loop == embed_chunks(chunks, key, resps, 0,
                             [index_chunks |-> <<>>, calls |-> 0])
        payload == build_payload(loop.index_chunks, now)
    IN  [ok |-> loop.ok, err |-> loop.err, text |-> text, calls |-> loop.calls,
         payload |-> payload, blob |-> json_dumps(payload)]

\* load_kb_index without its except clause: the JSONDecodeError leaves it.
loads_or_none_uncaught(parsed) == IF parsed.ok THEN Some(parsed.value) ELSE Raised

\* try: return json.loads(raw) / except json.JSONDecodeError: return None
loads_or_none(parsed) == IF parsed.ok THEN Some(parsed.value) ELSE None

\* load_kb_index: None for a missing or empty file and for a JSONDecodeError.
load_kb_index(idx) ==
    IF _read_file(idx) = <<>> THEN None ELSE loads_or_none(json_loads(_read_file(idx)))

(***************************************************************************)
(* _cosine_similarity and search_kb.                                       *)
(***************************************************************************)
RECURSIVE GCD(_, _)
GCD(a, b) == IF b = 0 THEN a ELSE GCD(b, a % b)

RECURSIVE SumSeq(_)
SumSeq(s) == IF s = <<>> THEN 0 ELSE Head(s) + SumSeq(Tail(s))

dot_product(a, b) == SumSeq([i \in 1..Len(a) |-> a[i] * b[i]])

\* A score is kept exactly: [num, den] stands for the number of the sign of
\* num whose square is |num| / den (den > 0, the fraction in lowest terms).
\* Rounding of the floating-point division is not modelled.
ZeroScore == [num |-> 0, den |-> 1]

ScoreOf(dot, sq_a, sq_b) ==
    LET n == dot * dot
        d == sq_a * sq_b
        g == GCD(n, d)
    IN  IF dot = 0 THEN ZeroScore
        ELSE [num |-> (IF dot < 0 THEN -1 ELSE 1) * (n \div g), den |-> d \div g]

\* x <= y and x < y on scores.
ScoreLeq(x, y) == x.num * y.den <= y.num * x.den
ScoreLess(x, y) == x.num * y.den < y.num * x.den

\* _cosine_similarity without the test of lines 163-164: the division by a
\* zero norm is made, written as the score with den = 0.
_cosine_similarity_unguarded(a, b) ==
    IF a = <<>> \/ b = <<>> \/ Len(a) # Len(b) THEN ZeroScore
    ELSE LET dot == dot_product(a, b)
             sq_a == dot_product(a, a)
             sq_b == dot_product(b, b)
         IN  IF sq_a = 0 \/ sq_b = 0 THEN [num |-> 0, den |-> 0]
             ELSE ScoreOf(dot, sq_a, sq_b)

\* _cosine_similarity: 0.0 for vectors that are empty or of different
\* lengths (line 158) and for a zero norm (lines 163-164).
_cosine_similarity(a, b) ==
    IF a = <<>> \/ b = <<>> \/ Len(a) # Len(b) THEN ZeroScore
    ELSE LET dot == dot_product(a, b)
             sq_a == dot_product(a, a)
             sq_b == dot_product(b, b)
         IN  IF sq_a = 0 \/ sq_b = 0 THEN ZeroScore
             ELSE ScoreOf(dot, sq_a, sq_b)

\* The sort without reverse=True: ascending.
RECURSIVE insert_asc(_, _)
insert_asc(sorted, e) ==
    IF sorted = <<>> THEN <<e>>
    ELSE IF ScoreLess(e.score, Head(sorted).score) THEN <<e>> \o sorted
    ELSE <<Head(sorted)>> \o insert_asc(Tail(sorted), e)

\* A descending sort that is not stable: an entry goes in front of the
\* entries of equal score already placed.
RECURSIVE insert_desc_unstable(_, _)
insert_desc_unstable(sorted, e) ==
    IF sorted = <<>> THEN <<e>>
    ELSE IF ScoreLeq(Head(sorted).score, e.score) THEN <<e>> \o sorted
    ELSE <<Head(sorted)>> \o insert_desc_unstable(Tail(sorted), e)

\* scored.sort(key=lambda x: x[0], reverse=True): a stable sort, so an entry
\* goes behind every entry already placed whose score is not smaller.
RECURSIVE insert_desc(_, _)
insert_desc(sorted, e) ==
    IF sorted = <<>> THEN <<e>>
    ELSE IF ScoreLess(Head(sorted).score, e.score) THEN <<e>> \o sorted
    ELSE <<Head(sorted)>> \o insert_desc(Tail(sorted), e)

RECURSIVE sort_desc(_, _)
sort_desc(scored, acc) ==
    IF scored = <<>> THEN acc
    ELSE sort_desc(Tail(scored), insert_desc(acc, Head(scored)))

\* The clamp without its upper end: max(1, top_k).
clamp_top_k_no_upper(top_k) == Max(TopKMin, top_k)

\* max(1, min(top_k, 10))
clamp_top_k(top_k) == Max(TopKMin, Min(top_k, TopKMax))

\* Lines 176-188 of search_kb: score every chunk, sort, cut to top_k.
rank_chunks(chunks, q_embed, top_k) ==
    LET scored == [i \in 1..Len(chunks) |->
                     [score |-> _cosine_similarity(q_embed, chunks[i].embedding),
                      ch |-> chunks[i]]]
        ranked == sort_desc(scored, <<>>)
    IN  [i \in 1..Min(clamp_top_k(top_k), Len(chunks)) |->
            [score |-> ranked[i].score, text |-> ranked[i].ch.text,
             id |-> ranked[i].ch.id]]

\* search_kb without the test of line 170: index.get on None raises.
search_loaded_unchecked(index, e, top_k) ==
    IF index.raised \/ index.isNone
    THEN [results |-> <<>>, raised |-> TRUE, err |-> "AttributeError", calls |-> 0]
    ELSE IF ~e.ok
    THEN [results |-> <<>>, raised |-> FALSE, err |-> e.err, calls |-> e.calls]
    ELSE [results |-> rank_chunks(index.value.chunks, e.vec, top_k),
          raised |-> FALSE, err |-> "", calls |-> e.calls]

\* search_kb without the try / except of lines 172-175.
search_loaded_uncaught(index, e, top_k) ==
    IF index.raised
    THEN [results |-> <<>>, raised |-> TRUE, err |-> "Exception", calls |-> 0]
    ELSE IF index.isNone \/ index.value.chunks = <<>>
    THEN [results |-> <<>>, raised |-> FALSE, err |-> "", calls |-> 0]
    ELSE IF ~e.ok
    THEN [results |-> <<>>, raised |-> TRUE, err |-> e.err, calls |-> e.calls]
    ELSE [results |-> rank_chunks(index.value.chunks, e.vec, top_k),
          raised |-> FALSE, err |-> "", calls |-> e.calls]

\* search_kb embedding the query before it looks at the index.
search_loaded_embed_first(index, e, top_k) ==
    IF index.raised
    THEN [results |-> <<>>, raised |-> TRUE, err |-> "Exception", calls |-> 0]
    ELSE IF ~e.ok
    THEN [results |-> <<>>, raised |-> FALSE, err |-> e.err, calls |-> e.calls]
    ELSE IF index.isNone \/ index.value.chunks = <<>>
    THEN [results |-> <<>>, raised |-> FALSE, err |-> "", calls |-> e.calls]
    ELSE [results |-> rank_chunks(index.value.chunks, e.vec, top_k),
          raised |-> FALSE, err |-> "", calls |-> e.calls]

\* Lines 170-175 of search_kb, on the loaded index and on what
\* _generate_embedding(query) gave: an exception of the embedding is caught.
search_loaded(index, e, top_k) ==
    IF index.raised
    THEN [results |-> <<>>, raised |-> TRUE, err |-> "Exception", calls |-> 0]
    ELSE IF index.isNone \/ index.value.chunks = <<>>
    THEN [results |-> <<>>, raised |-> FALSE, err |-> "", calls |-> 0]
    ELSE IF ~e.ok
    THEN [results |-> <<>>, raised |-> FALSE, err |-> e.err, calls |-> e.calls]
    ELSE [results |-> rank_chunks(index.value.chunks, e.vec, top_k),
          raised |-> FALSE, err |-> "", calls |-> e.calls]

\* search_kb: the results, whether an exception left the function, and the
\* number of calls made to the provider.  resp is the provider's answer to
\* the one embedding call, should it be made.
search_kb(idx, key, resp, top_k) ==
    search_loaded(load_kb_index(idx), _generate_embedding(key, resp), top_k)

(***************************************************************************)
(* The state and the operations.                                           *)
(*                                                                         *)
(* last records the latest call: its name, its arguments, what it returned *)
(* or raised, and what it read.                                            *)
(***************************************************************************)
Idle ==
    [op |-> "none", ok |-> TRUE, err |-> "", content |-> <<>>, text |-> <<>>,
     index |-> None, results |-> <<>>, top_k |-> 0, vec |-> <<>>, calls |-> 0,
     failAt |-> 0, hadMore |-> FALSE]

\* The calls in progress, one for each thread that serves requests.  A call
\* that writes a file is at "open" before open(path, 'w'), at "write" while
\* f.write runs (pos is how much it wrote) and "done" when it returned.
\* before is the file as the call found it, text the source text it read,
\* during the calls it overlapped with, rank its place among the returns.
Procs == 1..MaxProcs

NotRunning ==
    [pc |-> "idle", op |-> "none", ok |-> TRUE, content |-> <<>>, pos |-> 0,
     before |-> NoFile, text |-> <<>>, during |-> {}, rank |-> 0]

NoCalls == [p \in Procs |-> NotRunning]

\* The documents an administrator saves.
SourceTexts == {<<>>, <<"a">>, <<"a", "b", NL, "c", "d">>, <<SP, CR>>}

\* The rows of SiteSettings.
SiteRows == {[EmptyRow EXCEPT !.contact_email = <<"x">>]}
SiteDbs == {DbDown, DbNoRow} \cup {DbRow(r) : r \in SiteRows}

Clock == 0..MaxClock

\* The top_k values a caller passes: those around the two ends of the clamp.
TopKs == (0..TopKDefault) \cup ((TopKMax - 1)..(TopKMax + 2))

\* A fresh deployment: neither file exists.
Init ==
    /\ srcFile = NoFile
    /\ idxFile = NoFile
    /\ siteDb = DbNoRow
    /\ apiKey = TRUE
    /\ providerDown = FALSE
    /\ last = Idle
    /\ inflight = NoCalls

\* The environment: the credential, the provider and the site settings change.
SetApiKey ==
    /\ apiKey' = ~apiKey
    /\ last' = Idle
    /\ UNCHANGED <<srcFile, idxFile, siteDb, providerDown, inflight>>

SetProvider ==
    /\ providerDown' = ~providerDown
    /\ last' = Idle
    /\ UNCHANGED <<srcFile, idxFile, siteDb, apiKey, inflight>>

SetSiteDb ==
    /\ \E db \in SiteDbs : db # siteDb /\ siteDb' = db
    /\ last' = Idle
    /\ UNCHANGED <<srcFile, idxFile, apiKey, providerDown, inflight>>

\* save_kb_source_text also removing the index file, so that a stale index is
\* never searched.
SaveSource_drop_index ==
    \E content \in SourceTexts :
      \E written \in WritePoints(content) :
        /\ srcFile' = _write_file(srcFile, content, written)
        /\ idxFile' = NoFile
        /\ last' = [Idle EXCEPT !.op = "save", !.content = content,
                       !.ok = write_completed(content, written),
                       !.err = IF write_completed(content, written)
                               THEN "" ELSE "OSError"]
        /\ UNCHANGED <<siteDb, apiKey, providerDown, inflight>>

\* save_kb_source_text(content): _write_file(KB_SOURCE_PATH, content or '').
SaveSource ==
    \E content \in SourceTexts :
      \E written \in WritePoints(content) :
        /\ srcFile' = _write_file(srcFile, content, written)
        /\ last' = [Idle EXCEPT !.op = "save", !.content = content,
                       !.ok = write_completed(content, written),
                       !.err = IF write_completed(content, written)
                               THEN "" ELSE "OSError"]
        /\ UNCHANGED <<idxFile, siteDb, apiKey, providerDown, inflight>>

\* get_kb_source_text creating the source file when there is none.
GetSource_create_missing ==
    /\ last' = [Idle EXCEPT !.op = "get",
                   !.text = get_kb_source_text(srcFile, siteDb)]
    /\ srcFile' = IF srcFile.exists THEN srcFile ELSE FileOf(<<>>)
    /\ UNCHANGED <<idxFile, siteDb, apiKey, providerDown, inflight>>

\* get_kb_source_text()
GetSource ==
    /\ last' = [Idle EXCEPT !.op = "get",
                   !.text = get_kb_source_text(srcFile, siteDb)]
    /\ UNCHANGED <<srcFile, idxFile, siteDb, apiKey, providerDown, inflight>>

\* The number of chunks the index file holds: those of its JSON object when
\* the file ends with the object's closing brace, none otherwise.
chunk_count(file) ==
    IF file.exists /\ file.data # <<>> /\ file.data[Len(file.data)] = RBrace
    THEN Cardinality({i \in 1..Len(file.data) : file.data[i].t = "chunk"})
    ELSE 0

\* The first of the n embedding calls that fails, 0 when none does.
first_failure(key, resps, n) ==
    IF \E i \in 1..n : ~_generate_embedding(key, resps[i]).ok
    THEN CHOOSE i \in 1..n :
            /\ ~_generate_embedding(key, resps[i]).ok
            /\ \A j \in 1..(i - 1) : _generate_embedding(key, resps[j]).ok
    ELSE 0

\* build_kb_index(): the payload is written only after every chunk has its
\* embedding.
BuildIndex ==
    \E n \in {Len(_chunk_text(get_kb_source_text(srcFile, siteDb),
                               MaxChars, Overlap))} :
      \E now \in Clock, resps \in ResponseSeqs(n, providerDown) :
        \E b \in {build_kb_index(srcFile, siteDb, apiKey, resps, now)} :
              \E written \in WritePoints(b.blob) :
                /\ ~b.ok => written = Len(b.blob)
                /\ idxFile' = IF b.ok THEN _write_file(idxFile, b.blob, written)
                               ELSE idxFile
                /\ last' = [Idle EXCEPT !.op = "build",
                              !.ok = b.ok /\ write_completed(b.blob, written),
                              !.err = IF ~b.ok THEN b.err
                                      ELSE IF write_completed(b.blob, written)
                                      THEN "" ELSE "OSError",
                              !.text = b.text,
                              !.index = IF b.ok /\ write_completed(b.blob, written)
                                        THEN Some(b.payload) ELSE None,
                              !.calls = b.calls,
                              !.failAt = first_failure(apiKey, resps, n),
                              !.hadMore = /\ b.ok
                                          /\ write_completed(b.blob, written)
                                          /\ chunk_count(idxFile) > n]
                /\ UNCHANGED <<srcFile, siteDb, apiKey, providerDown, inflight>>

\* load_kb_index()
LoadIndex ==
    /\ last' = [Idle EXCEPT !.op = "load", !.index = load_kb_index(idxFile),
                   !.ok = ~load_kb_index(idxFile).raised]
    /\ UNCHANGED <<srcFile, idxFile, siteDb, apiKey, providerDown, inflight>>

\* search_kb(query, top_k)
Search(top_k) ==
    \E resp \in ProviderResponses(providerDown) :
        \E r \in {search_kb(idxFile, apiKey, resp, top_k)} :
            /\ last' = [Idle EXCEPT !.op = "search", !.ok = ~r.raised,
                           !.err = r.err, !.results = r.results,
                           !.top_k = top_k, !.calls = r.calls,
                           !.vec = _generate_embedding(apiKey, resp).vec,
                           !.failAt = IF _generate_embedding(apiKey, resp).ok
                                      THEN 0 ELSE 1]
            /\ UNCHANGED <<srcFile, idxFile, siteDb, apiKey, providerDown, inflight>>

SearchDefault == Search(TopKDefault)

Next ==
    \/ SetApiKey
    \/ SetProvider
    \/ SetSiteDb
    \/ SaveSource
    \/ GetSource
    \/ BuildIndex
    \/ LoadIndex
    \/ SearchDefault

Spec == Init /\ [][Next]_vars

(***************************************************************************)
(* The searcher on its own: it starts on an index file as build_kb_index   *)
(* leaves it (any number of chunks up to MaxIndexChunks, any embeddings), on*)
(* a file an interrupted write left, on an empty file or on none.          *)
(***************************************************************************)
\* The payload of a successful build over n chunks whose embedding calls
\* were answered by vecs.
built_payload(n, vecs, now) ==
    build_payload(
        embed_chunks([i \in 1..n |-> <<"a">>], TRUE,
                     [i \in 1..n |-> ProviderAnswer(vecs[i])], 0,
                     [index_chunks |-> <<>>, calls |-> 0]).index_chunks,
        now)

BuiltIndexFiles ==
    UNION {{FileOf(json_dumps(built_payload(
                      n, [i \in 1..n |-> base[((i - 1) % PatternLen) + 1]], 0))) :
                base \in [1..PatternLen -> IndexVectors]} :
              n \in 0..MaxIndexChunks}

CutIndexFiles ==
    UNION {{_write_file(NoFile, f.data, k) : k \in WritePoints(f.data) \ {Len(f.data)}} :
              f \in {g \in BuiltIndexFiles : Len(g.data) <= 8}}

SearchIndexFiles == {NoFile} \cup CutIndexFiles \cup BuiltIndexFiles

SearchInit ==
    /\ srcFile = NoFile
    /\ idxFile \in SearchIndexFiles
    /\ siteDb = DbNoRow
    /\ apiKey \in BOOLEAN
    /\ providerDown \in BOOLEAN
    /\ last = Idle
    /\ inflight = NoCalls

SearchAny == \E top_k \in TopKs : Search(top_k)

\* One call in each behaviour: search_kb writes nothing a later call reads.
SearchNext == last.op = "none" /\ SearchAny

SpecSearch == SearchInit /\ [][SearchNext]_vars

(***************************************************************************)
(* The chunker on its own: _chunk_text on every document of up to          *)
(* MaxTextLen characters, with every max_chars up to MaxChars and every    *)
(* overlap up to Overlap + 1, and the chunks as build_kb_index stores them.*)
(***************************************************************************)
ChunkAlphabet == {"a", "b", SP, NL}

ChunkTexts == UNION {[1..n -> ChunkAlphabet] : n \in 0..MaxTextLen}

ChunkInit ==
    /\ srcFile \in {FileOf(text) : text \in ChunkTexts}
    /\ idxFile = NoFile
    /\ siteDb = DbNoRow
    /\ apiKey = TRUE
    /\ providerDown = FALSE
    /\ last = Idle
    /\ inflight = NoCalls

\* _chunk_text(text, max_chars, overlap) on the document of the source file:
\* pre is the list of chunks before the overlap step, stored the chunks of
\* the index that the loop of build_kb_index makes of the result.
ChunkDocument(max_chars, overlap) ==
    \E text \in {get_kb_source_text(srcFile, siteDb)} :
      \E chunks \in {_chunk_text(text, max_chars, overlap)} :
        /\ last' = [op |-> "chunk", text |-> text, max_chars |-> max_chars,
                    overlap |-> overlap,
                    pre |-> pre_overlap_chunks(text, max_chars),
                    chunks |-> chunks,
                    stored |-> embed_chunks(chunks, TRUE,
                                  [i \in 1..Len(chunks) |-> ProviderAnswer(<<1, 0>>)],
                                  0, [index_chunks |-> <<>>, calls |-> 0]).index_chunks]
        /\ UNCHANGED <<srcFile, idxFile, siteDb, apiKey, providerDown, inflight>>

ChunkAny ==
    \E max_chars \in 1..MaxChars, overlap \in 0..(Overlap + 1) :
        ChunkDocument(max_chars, overlap)

\* One call in each behaviour: _chunk_text keeps nothing between calls.
ChunkNext == last.op = "none" /\ ChunkAny

SpecChunk == ChunkInit /\ [][ChunkNext]_vars

(***************************************************************************)
(* The similarity on its own: _cosine_similarity on vectors of up to       *)
(* MaxDim components, the empty and the all-zero ones among them, and      *)
(* search_kb over indexes whose chunks were given such embeddings.         *)
(***************************************************************************)
CosineVectors == UNION {[1..n -> {-1, 0, 1}] : n \in 0..MaxDim}

\* The indexes searched: the embeddings of the chunks alternate between two
\* of the vectors.
CosineIndexFiles ==
    UNION {{FileOf(json_dumps(built_payload(
                      n, [i \in 1..n |-> IF i % 2 = 1 THEN pair[1] ELSE pair[2]], 0))) :
                pair \in CosineVectors \X CosineVectors} :
              n \in 1..MaxCosineChunks}

CosineInit ==
    /\ srcFile = NoFile
    /\ idxFile \in CosineIndexFiles
    /\ siteDb = DbNoRow
    /\ apiKey = TRUE
    /\ providerDown = FALSE
    /\ last = Idle
    /\ inflight = NoCalls

\* _cosine_similarity(a, b), b the embedding of the first chunk of the index.
CosinePair ==
    \E a \in CosineVectors :
      \E b \in {json_loads(idxFile.data).value.chunks[1].embedding} :
        /\ last' = [op |-> "cosine", a |-> a, b |-> b,
                    score |-> _cosine_similarity(a, b)]
        /\ UNCHANGED <<srcFile, idxFile, siteDb, apiKey, providerDown, inflight>>

\* One call in each behaviour: neither function keeps anything between calls.
CosineNext == last.op = "none" /\ (CosinePair \/ SearchDefault)

SpecCosine == CosineInit /\ [][CosineNext]_vars

(***************************************************************************)
(* The HTTP layer (website_kb_api.py): the handlers of PUT source, POST    *)
(* reindex and POST query over the same files.  An exception that leaves   *)
(* a handler is answered by the framework with HTTP 500.                   *)
(***************************************************************************)
\* Who the token names: nobody the database knows, a user, an administrator.
Roles == {"none", "user", "admin"}

\* A value of the JSON body: its kind, and its number num / den or its text.
Json(kind, num, den, str) == [kind |-> kind, num |-> num, den |-> den, str |-> str]
JsonAbsent == Json("absent", 0, 1, <<>>)
JsonStr(str) == Json("str", 0, 1, str)
JsonInt(v) == Json("int", v, 1, <<>>)

\* 'content' of the body of PUT source.
ContentJson == {JsonAbsent, JsonInt(5)} \cup {JsonStr(t) : t \in SourceTexts}

\* 'query' of the body of POST query.
QueryJson == {JsonAbsent, JsonStr(<<>>), JsonStr(<<SP>>), JsonStr(<<"a">>)}

\* 'top_k' of the body of POST query: absent, null, a list, true, integers,
\* 2.7, -0.5, NaN, a number past the largest float (1e999), and strings.
TopKJson ==
    {JsonAbsent, Json("null", 0, 1, <<>>), Json("list", 0, 1, <<>>),
     Json("bool", 1, 1, <<>>), JsonInt(0), JsonInt(2), JsonInt(11),
     Json("float", 27, 10, <<>>), Json("float", -5, 10, <<>>),
     Json("nan", 0, 1, <<>>), Json("inf", 1, 0, <<>>),
     JsonStr(<<"2">>), JsonStr(<<SP, "1", "2">>), JsonStr(<<"-", "3">>),
     JsonStr(<<"a">>), JsonStr(<<"2", ".", "5">>), JsonStr(<<>>)}

Digits == <<"0", "1", "2", "3", "4", "5", "6", "7", "8", "9">>
is_digit(c) == \E i \in 1..Len(Digits) : Digits[i] = c
digit_value(c) == (CHOOSE i \in 1..Len(Digits) : Digits[i] = c) - 1

RECURSIVE decimal_value(_, _)
decimal_value(ds, acc) ==
    IF ds = <<>> THEN acc
    ELSE decimal_value(Tail(ds), acc * Len(Digits) + digit_value(Head(ds)))

IntOk(v) == [ok |-> TRUE, err |-> "", value |-> v]
IntRaises(err) == [ok |-> FALSE, err |-> err, value |-> 0]

\* int(s) of a string: whitespace stripped, an optional sign, then digits.
int_of_str(s) ==
    LET t == strip(s)
        signed == t # <<>> /\ Head(t) \in {"-", "+"}
        ds == IF signed THEN Tail(t) ELSE t
    IN  IF ds = <<>> \/ \E i \in 1..Len(ds) : ~is_digit(ds[i])
        THEN IntRaises("ValueError")
        ELSE IntOk((IF signed /\ Head(t) = "-" THEN -1 ELSE 1) * decimal_value(ds, 0))

\* int(top_k): a float is cut towards zero, NaN is a ValueError, an
\* infinity an OverflowError, None and a list a TypeError.
python_int(j) ==
    CASE j.kind \in {"int", "bool"} -> IntOk(j.num)
      [] j.kind = "float" ->
            IntOk(IF j.num >= 0 THEN j.num \div j.den ELSE -((-j.num) \div j.den))
      [] j.kind = "nan" -> IntRaises("ValueError")
      [] j.kind = "inf" -> IntRaises("OverflowError")
      [] j.kind = "str" -> int_of_str(j.str)
      [] OTHER -> IntRaises("TypeError")

\* What a handler answered: the status, and of the body 'error', 'message',
\* 'count', 'updated_at' and 'results' (has_results: the body has the key).
\* built: build_kb_index returned; query, top_k: what the body asked.
Response ==
    [op |-> "none", role |-> "none", status |-> 0, error |-> "", message |-> "",
     count |-> 0, updated_at |-> 0, has_results |-> FALSE, results |-> <<>>,
     built |-> FALSE, query |-> <<>>, top_k |-> JsonAbsent, calls |-> 0]

\* kb_source_put
KbSourcePut ==
    \E role \in Roles, content \in ContentJson :
      IF role # "admin"
      THEN /\ last' = [Response EXCEPT !.op = "kb_source_put", !.role = role,
                          !.status = 403, !.error = "Unauthorized"]
           /\ UNCHANGED <<srcFile, idxFile, siteDb, apiKey, providerDown, inflight>>
      ELSE IF content.kind # "str"
      THEN /\ last' = [Response EXCEPT !.op = "kb_source_put", !.role = role,
                          !.status = 400, !.error = "content is required"]
           /\ UNCHANGED <<srcFile, idxFile, siteDb, apiKey, providerDown, inflight>>
      ELSE \E written \in WritePoints(content.str) :
             /\ srcFile' = _write_file(srcFile, content.str, written)
             /\ last' = IF write_completed(content.str, written)
                        THEN [Response EXCEPT !.op = "kb_source_put", !.role = role,
                                 !.status = 200, !.message = "KB source saved"]
                        ELSE [Response EXCEPT !.op = "kb_source_put", !.role = role,
                                 !.status = 500, !.error = "OSError"]
             /\ UNCHANGED <<idxFile, siteDb, apiKey, providerDown, inflight>>

\* kb_reindex
KbReindex ==
    \E role \in Roles :
      IF role # "admin"
      THEN /\ last' = [Response EXCEPT !.op = "kb_reindex", !.role = role,
                          !.status = 403, !.error = "Unauthorized"]
           /\ UNCHANGED <<srcFile, idxFile, siteDb, apiKey, providerDown, inflight>>
      ELSE \E n \in {Len(_chunk_text(get_kb_source_text(srcFile, siteDb),
                                      MaxChars, Overlap))} :
             \E now \in Clock, resps \in ResponseSeqs(n, providerDown) :
               \E b \in {build_kb_index(srcFile, siteDb, apiKey, resps, now)} :
                 \E written \in WritePoints(b.blob) :
                   /\ ~b.ok => written = Len(b.blob)
                   /\ idxFile' = IF b.ok THEN _write_file(idxFile, b.blob, written)
                                  ELSE idxFile
                   /\ last' = IF b.ok /\ write_completed(b.blob, written)
                              THEN [Response EXCEPT !.op = "kb_reindex",
                                       !.role = role, !.status = 200,
                                       !.message = "KB reindexed",
                                       !.count = b.payload.count,
                                       !.updated_at = b.payload.updated_at,
                                       !.built = TRUE, !.calls = b.calls]
                              ELSE [Response EXCEPT !.op = "kb_reindex",
                                       !.role = role, !.status = 500,
                                       !.error = IF ~b.ok THEN b.err ELSE "OSError",
                                       !.calls = b.calls]
                   /\ UNCHANGED <<srcFile, siteDb, apiKey, providerDown, inflight>>

\* query = data.get('query') or ''
query_or_empty(j) == IF j.kind = "str" THEN j.str ELSE <<>>

\* kb_query.  _get_current_user does not look at the role: an administrator
\* is answered as any other user is.
KbQuery ==
    \E role \in Roles \ {"admin"}, query \in QueryJson, top_k \in TopKJson :
      /\ (role = "none" \/ strip(query_or_empty(query)) = <<>>) => top_k = JsonAbsent
      /\ \E resp \in ProviderResponses(providerDown) :
           LET asked == [Response EXCEPT !.op = "kb_query", !.role = role,
                            !.query = query_or_empty(query), !.top_k = top_k]
               int_top_k == python_int(IF top_k.kind = "absent"
                                       THEN JsonInt(TopKDefault) ELSE top_k)
               used == IF int_top_k.ok THEN int_top_k.value ELSE TopKDefault
               r == search_kb(idxFile, apiKey, resp, used)
           IN  last' =
                 IF role = "none"
                 THEN [asked EXCEPT !.status = 401, !.error = "Invalid token"]
                 ELSE IF strip(query_or_empty(query)) = <<>>
                 THEN [asked EXCEPT !.status = 400, !.error = "Query is required"]
                 ELSE IF ~int_top_k.ok /\ int_top_k.err \notin {"ValueError", "TypeError"}
                 THEN [asked EXCEPT !.status = 500, !.error = int_top_k.err]
                 ELSE IF r.raised
                 THEN [asked EXCEPT !.status = 500, !.error = r.err]
                 ELSE [asked EXCEPT !.status = 200, !.has_results = TRUE,
                          !.results = r.results, !.calls = r.calls]
      /\ UNCHANGED <<srcFile, idxFile, siteDb, apiKey, providerDown, inflight>>

\* The provider may fail any call whether providerDown or not.
ApiNext ==
    \/ SetApiKey
    \/ KbSourcePut
    \/ KbReindex
    \/ KbQuery

SpecApi == Init /\ [][ApiNext]_vars

(***************************************************************************)
(* Calls that overlap in time.  The server runs each request in a thread   *)
(* of its own, and the service takes no lock: the system calls of          *)
(* _write_file (the open that truncates, the writes of f.write, the close) *)
(* interleave with the calls of other requests.  A read of a file is taken *)
(* as one step.                                                            *)
(***************************************************************************)
running(call) == call.pc \in {"open", "write"}

\* The calls after thread p started call: it overlaps with those running.
started(p, call) ==
    LET others == {q \in Procs \ {p} : running(inflight[q])}
    IN  [q \in Procs |->
           IF q = p THEN [call EXCEPT !.during = others]
           ELSE IF q \in others
           THEN [inflight[q] EXCEPT !.during = inflight[q].during \cup {p}]
           ELSE inflight[q]]

\* The deployment the overlapping calls start on: a source document and the
\* index that a rebuild persisted from it.
persisted_index(src) ==
    FileOf(build_kb_index(src, DbNoRow, TRUE,
               [i \in 1..Len(_chunk_text(get_kb_source_text(src, DbNoRow),
                                         MaxChars, Overlap))
                   |-> ProviderAnswer(<<1, 0>>)], 0).blob)

ConcurrentInit ==
    /\ srcFile \in {FileOf(<<"a">>), FileOf(<<"a", "b", NL, "c", "d">>)}
    /\ idxFile = persisted_index(srcFile)
    /\ siteDb = DbNoRow
    /\ apiKey = TRUE
    /\ providerDown = FALSE
    /\ last = Idle
    /\ inflight = NoCalls

\* save_kb_source_text(content) is called: it is about to open the file.
BeginSave(p) ==
    /\ inflight[p].pc = "idle"
    /\ \E content \in SourceTexts :
          inflight' = started(p, [NotRunning EXCEPT !.pc = "open", !.op = "save",
                                     !.content = content, !.before = srcFile])
    /\ UNCHANGED <<srcFile, idxFile, siteDb, apiKey, providerDown, last>>

\* build_kb_index() is called: lines 128-142, up to the call of _write_file.
\* An embedding that fails ends the call there.
BeginBuild(p) ==
    /\ inflight[p].pc = "idle"
    /\ \E n \in {Len(_chunk_text(get_kb_source_text(srcFile, siteDb),
                                  MaxChars, Overlap))} :
         \E now \in Clock, resps \in ResponseSeqs(n, providerDown) :
           \E b \in {build_kb_index(srcFile, siteDb, apiKey, resps, now)} :
             IF b.ok
             THEN /\ inflight' = started(p, [NotRunning EXCEPT !.pc = "open",
                                     !.op = "build", !.content = b.blob,
                                     !.before = idxFile, !.text = b.text])
                  /\ last' = last
             ELSE /\ inflight' = [inflight EXCEPT ![p] =
                                     [NotRunning EXCEPT !.pc = "done",
                                         !.op = "build", !.ok = FALSE,
                                         !.before = idxFile, !.text = b.text]]
                  /\ last' = [Idle EXCEPT !.op = "build", !.ok = FALSE,
                                 !.err = b.err, !.text = b.text,
                                 !.calls = b.calls,
                                 !.failAt = first_failure(apiKey, resps, n)]
    /\ UNCHANGED <<srcFile, idxFile, siteDb, apiKey, providerDown>>

\* open(path, 'w') of _write_file.
OpenFile(p) ==
    /\ inflight[p].pc = "open"
    /\ inflight' = [inflight EXCEPT ![p].pc = "write", ![p].pos = 0]
    /\ IF inflight[p].op = "save"
       THEN srcFile' = open_truncate(srcFile) /\ idxFile' = idxFile
       ELSE idxFile' = open_truncate(idxFile) /\ srcFile' = srcFile
    /\ UNCHANGED <<siteDb, apiKey, providerDown, last>>

\* One write of f.write(content).
WriteStep(p) ==
    /\ inflight[p].pc = "write"
    /\ inflight[p].pos < Len(inflight[p].content)
    /\ \E block \in {next_block(inflight[p].content, inflight[p].pos)} :
          /\ inflight' = [inflight EXCEPT ![p].pos = @ + Len(block)]
          /\ IF inflight[p].op = "save"
             THEN /\ srcFile' = write_at(srcFile, inflight[p].pos, block,
                                         Hole(inflight[p].op))
                  /\ idxFile' = idxFile
             ELSE /\ idxFile' = write_at(idxFile, inflight[p].pos, block,
                                         Hole(inflight[p].op))
                  /\ srcFile' = srcFile
    /\ UNCHANGED <<siteDb, apiKey, providerDown, last>>

\* The file is closed and the call returns.
CloseFile(p) ==
    /\ inflight[p].pc = "write"
    /\ inflight[p].pos = Len(inflight[p].content)
    /\ inflight' = [inflight EXCEPT ![p].pc = "done",
                       ![p].rank = 1 + Cardinality({q \in Procs :
                                                     inflight[q].rank > 0})]
    /\ last' = IF inflight[p].op = "save"
               THEN [Idle EXCEPT !.op = "save", !.content = inflight[p].content]
               ELSE [Idle EXCEPT !.op = "build", !.text = inflight[p].text,
                        !.index = Some(json_loads(inflight[p].content).value)]
    /\ UNCHANGED <<srcFile, idxFile, siteDb, apiKey, providerDown>>

ConcurrentNext ==
    \/ \E p \in Procs : BeginSave(p)
    \/ \E p \in Procs : BeginBuild(p)
    \/ \E p \in Procs : OpenFile(p)
    \/ \E p \in Procs : WriteStep(p)
    \/ \E p \in Procs : CloseFile(p)
    \/ GetSource
    \/ LoadIndex
    \/ SearchDefault

SpecConcurrent == ConcurrentInit /\ [][ConcurrentNext]_vars

(***************************************************************************)
(* One rebuild step by step, with saves of the source around it: the read  *)
(* of the source text (line 128), the chunking and the embedding calls     *)
(* (lines 129-142), then the system calls of _write_file.                  *)
(***************************************************************************)
\* Lines 129-142 of build_kb_index on the text that line 128 read.
build_from_text(text, key, resps, now) ==
    LET chunks == _chunk_text(text, MaxChars, Overlap)
        loop == embed_chunks(chunks, key, resps, 0,
                             [index_chunks |-> <<>>, calls |-> 0])
        payload == build_payload(loop.index_chunks, now)
    IN  [ok |-> loop.ok, err |-> loop.err, text |-> text, calls |-> loop.calls,
         payload |-> payload, blob |-> json_dumps(payload)]

\* build_kb_index() is called and reads the source text (line 128).  One
\* rebuild is followed in each behaviour.
ReadSource(p) ==
    /\ inflight[p].pc = "idle"
    /\ \A q \in Procs : inflight[q].op # "build"
    /\ inflight' = [inflight EXCEPT ![p] =
                       [NotRunning EXCEPT !.pc = "embed", !.op = "build",
                           !.before = idxFile,
                           !.text = get_kb_source_text(srcFile, siteDb)]]
    /\ UNCHANGED <<srcFile, idxFile, siteDb, apiKey, providerDown, last>>

\* The rebuild reading the source text again once it chunks and embeds.
EmbedChunks_reread(p) ==
    /\ inflight[p].pc = "embed"
    /\ \E text \in {get_kb_source_text(srcFile, siteDb)} :
        \E n \in {Len(_chunk_text(text, MaxChars, Overlap))} :
         \E now \in Clock, resps \in ResponseSeqs(n, providerDown) :
           \E b \in {build_from_text(text, apiKey, resps, now)} :
             IF b.ok
             THEN /\ inflight' = [inflight EXCEPT ![p].pc = "open",
                                                  ![p].content = b.blob]
                  /\ last' = [Idle EXCEPT !.op = "embed", !.text = inflight[p].text,
                                 !.calls = b.calls]
             ELSE /\ inflight' = [inflight EXCEPT ![p].pc = "done",
                                                  ![p].ok = FALSE]
                  /\ last' = [Idle EXCEPT !.op = "build", !.ok = FALSE,
                                 !.err = b.err, !.text = inflight[p].text,
                                 !.calls = b.calls,
                                 !.failAt = first_failure(apiKey, resps, n)]
    /\ UNCHANGED <<srcFile, idxFile, siteDb, apiKey, providerDown>>

\* Lines 129-142: the text read at line 128 is chunked and every chunk
\* embedded; the loop over, the rebuild is about to open the index file.  An
\* embedding that fails ends the call.
EmbedChunks(p) ==
    /\ inflight[p].pc = "embed"
    /\ \E text \in {inflight[p].text} :
        \E n \in {Len(_chunk_text(text, MaxChars, Overlap))} :
         \E now \in Clock, resps \in ResponseSeqs(n, providerDown) :
           \E b \in {build_from_text(text, apiKey, resps, now)} :
             IF b.ok
             THEN /\ inflight' = [inflight EXCEPT ![p].pc = "open",
                                                  ![p].content = b.blob]
                  /\ last' = [Idle EXCEPT !.op = "embed", !.text = inflight[p].text,
                                 !.calls = b.calls]
             ELSE /\ inflight' = [inflight EXCEPT ![p].pc = "done",
                                                  ![p].ok = FALSE]
                  /\ last' = [Idle EXCEPT !.op = "build", !.ok = FALSE,
                                 !.err = b.err, !.text = inflight[p].text,
                                 !.calls = b.calls,
                                 !.failAt = first_failure(apiKey, resps, n)]
    /\ UNCHANGED <<srcFile, idxFile, siteDb, apiKey, providerDown>>

RebuildNext ==
    \/ \E p \in Procs : ReadSource(p)
    \/ \E p \in Procs : EmbedChunks(p)
    \/ \E p \in Procs : OpenFile(p)
    \/ \E p \in Procs : WriteStep(p)
    \/ \E p \in Procs : CloseFile(p)
    \/ SaveSource
    \/ LoadIndex

SpecRebuild == ConcurrentInit /\ [][RebuildNext]_vars

(***************************************************************************)
(* The claims.                                                             *)
(***************************************************************************)
EmbeddingErrors == {"ValueError", "RuntimeError"}

\* The chunks of the JSON object the index file holds.
stored_chunks(file) == json_loads(file.data).value.chunks

\* The index file holds text that is not one complete JSON object.
cut_short(file) ==
    file.exists /\ file.data # <<>> /\ file.data[Len(file.data)] # RBrace

\* C1: when an embedding call of build_kb_index fails, at whichever chunk, the
\* call ends in that error and the index file is what it was before the call,
\* so that load_kb_index returns what it returned before.
C1_AllOrNothing ==
    [][(last'.op = "build" /\ last'.failAt # 0)
          => /\ ~last'.ok
             /\ last'.err \in EmbeddingErrors
             /\ last'.index = None
             /\ idxFile' = idxFile
             /\ load_kb_index(idxFile') = load_kb_index(idxFile)]_vars

\* A rebuild that failed at its second chunk or later, over an index that an
\* earlier rebuild persisted.
C1_Witness ==
    /\ last.op = "build"
    /\ last.failAt >= 2
    /\ ~last.ok
    /\ chunk_count(idxFile) >= 1

\* C2, as claimed: with the provider always failing or no credential, every
\* build_kb_index ends in an error, whatever the source text, and
\* load_kb_index returns afterwards what it returned before.
C2_AlwaysFails ==
    [][(last'.op = "build" /\ (~apiKey' \/ providerDown'))
          => /\ ~last'.ok
             /\ load_kb_index(idxFile') = load_kb_index(idxFile)]_vars

\* C2, amended: with the provider always failing or no credential, every
\* build_kb_index over a source text that yields at least one chunk ends in
\* an error and leaves the index file as it was.
C2_FailsWhenChunks ==
    [][(/\ last'.op = "build"
        /\ (~apiKey' \/ providerDown')
        /\ _chunk_text(last'.text, MaxChars, Overlap) # <<>>)
          => /\ ~last'.ok
             /\ last'.err \in EmbeddingErrors
             /\ idxFile' = idxFile
             /\ load_kb_index(idxFile') = load_kb_index(idxFile)]_vars

\* A rebuild refused by a provider that is down, over a persisted index.
C2_Witness ==
    /\ last.op = "build"
    /\ apiKey
    /\ providerDown
    /\ last.err = "RuntimeError"
    /\ chunk_count(idxFile) >= 1

\* C3: after a successful build_kb_index the index file holds exactly the
\* chunks of the source text that call read, with ids 1..count, and nothing
\* of what the file held before.
C3_ReplaceNotMerge ==
    (last.op = "build" /\ last.ok)
      => LET chunks == _chunk_text(last.text, MaxChars, Overlap)
             loaded == load_kb_index(idxFile)
         IN  /\ ~loaded.isNone
             /\ loaded.value.count = Len(chunks)
             /\ Len(loaded.value.chunks) = Len(chunks)
             /\ \A i \in 1..Len(chunks) :
                   /\ loaded.value.chunks[i].id = i
                   /\ loaded.value.chunks[i].text = chunks[i]

\* A successful rebuild over an index that held more chunks than the source
\* now yields.
C3_Witness ==
    /\ last.op = "build"
    /\ last.ok
    /\ last.hadMore

\* C4: search_kb returns the empty list, and raises nothing, when the index
\* file is missing, empty, not parseable or holds no chunk, for every top_k.
C4_SearchWithoutIndex ==
    (last.op = "search" /\ chunk_count(idxFile) = 0)
      => (last.ok /\ last.results = <<>>)

\* A search over an index file that an interrupted write cut short.
C4_Witness ==
    /\ last.op = "search"
    /\ cut_short(idxFile)
    /\ last.top_k > TopKMax
    /\ last.results = <<>>

\* C5: when the embedding of the query fails (no credential, or the provider
\* fails), search_kb returns the empty list and raises nothing, whatever the
\* index file holds.
C5_SearchEmbeddingFails ==
    (last.op = "search" /\ last.failAt # 0)
      => (last.ok /\ last.results = <<>>)

\* A search over an index with chunks whose query the provider failed to embed.
C5_Witness ==
    /\ last.op = "search"
    /\ chunk_count(idxFile) >= 1
    /\ apiKey
    /\ last.err = "RuntimeError"
    /\ last.ok

\* The results are in non-increasing order of score.
sorted_by_score(results) ==
    \A i, j \in 1..Len(results) :
        i < j => ScoreLeq(results[j].score, results[i].score)

\* C6, as claimed: the results are sorted by non-increasing score and number
\* at most min(top_k, number of chunks), for every integer top_k.
C6_AtMostTopK ==
    last.op = "search"
      => /\ sorted_by_score(last.results)
         /\ Len(last.results) <= Min(last.top_k, chunk_count(idxFile))

\* C6, amended: the results are sorted by non-increasing score and number at
\* most min(max(1, top_k), number of chunks).
C6_AtMostClampedTopK ==
    last.op = "search"
      => /\ sorted_by_score(last.results)
         /\ Len(last.results) <= Min(Max(1, last.top_k), chunk_count(idxFile))

\* A search that returned three results, not all of one score, out of more.
C6_Witness ==
    /\ last.op = "search"
    /\ last.top_k = 3
    /\ Len(last.results) = 3
    /\ chunk_count(idxFile) > 3
    /\ last.results[1].score # last.results[3].score

\* C7: over an index of n >= 1 chunks and with the query embedded, search_kb
\* returns exactly min(max(1, min(top_k, 10)), n) results, each a chunk of
\* the index with its score, and no chunk left out scores higher than one
\* returned.
C7_ClampedTopResults ==
    (last.op = "search" /\ chunk_count(idxFile) >= 1 /\ last.failAt = 0)
      => LET chunks == stored_chunks(idxFile)
             score(i) == _cosine_similarity(last.vec, chunks[i].embedding)
             returned == {last.results[k].id : k \in 1..Len(last.results)}
         IN  /\ Len(last.results) = Min(Max(1, Min(last.top_k, 10)), Len(chunks))
             /\ Cardinality(returned) = Len(last.results)
             /\ \A k \in 1..Len(last.results) :
                   /\ last.results[k].id \in 1..Len(chunks)
                   /\ last.results[k].score = score(last.results[k].id)
                   /\ last.results[k].text = chunks[last.results[k].id].text
                   /\ \A i \in 1..Len(chunks) :
                         i \notin returned
                           => ScoreLeq(score(i), last.results[k].score)

\* A search with top_k above 10 over more than 10 chunks: 10 results.
C7_Witness ==
    /\ last.op = "search"
    /\ last.top_k > TopKMax
    /\ chunk_count(idxFile) > TopKMax
    /\ Len(last.results) = TopKMax

\* C8: results of equal score are in ascending order of chunk id (the index
\* holding its chunks in id order).
C8_TiesByAscendingId ==
    last.op = "search"
      => \A i, j \in 1..Len(last.results) :
            (i < j /\ last.results[i].score = last.results[j].score)
              => last.results[i].id < last.results[j].id

\* A search whose results hold two chunks of one score and one of another.
C8_Witness ==
    /\ last.op = "search"
    /\ Len(last.results) >= 3
    /\ \E i, j \in 1..Len(last.results) :
          i < j /\ last.results[i].score = last.results[j].score
    /\ \E i, j \in 1..Len(last.results) :
          last.results[i].score # last.results[j].score

\* C9: an index that build_kb_index returned or that the index file holds has
\* count equal to the number of its chunks and the ids 1, 2, ..., count; the
\* one returned has the chunker's chunks in the chunker's order.
C9_CountAndIds ==
    /\ ~load_kb_index(idxFile).isNone
         => LET p == load_kb_index(idxFile).value
            IN  /\ p.count = Len(p.chunks)
                /\ \A i \in 1..Len(p.chunks) : p.chunks[i].id = i
    /\ (last.op = "build" /\ last.ok)
         => LET p == last.index.value
                chunks == _chunk_text(last.text, MaxChars, Overlap)
            IN  /\ ~last.index.isNone
                /\ p.count = Len(p.chunks)
                /\ Len(p.chunks) = Len(chunks)
                /\ \A i \in 1..Len(p.chunks) :
                      p.chunks[i].id = i /\ p.chunks[i].text = chunks[i]

\* A rebuild that returned an index of two chunks or more.
C9_Witness ==
    /\ last.op = "build"
    /\ last.ok
    /\ last.index.value.count >= 2

\* C10: load_kb_index raises nothing; it returns None when the index file is
\* missing, empty or not one complete JSON object, and the object the file
\* holds otherwise.
C10_LoadOrNone ==
    last.op = "load"
      => /\ last.ok
         /\ IF ~idxFile.exists \/ idxFile.data = <<>> \/ cut_short(idxFile)
            THEN last.index = None
            ELSE /\ ~last.index.isNone
                 /\ json_dumps(last.index.value) = idxFile.data

\* A load of an index file that an interrupted write cut short.
C10_Witness ==
    /\ last.op = "load"
    /\ cut_short(idxFile)
    /\ last.index = None

\* Thread p is writing the file of op, and no other call overlaps with it.
writing_alone(p, op) ==
    /\ running(inflight[p])
    /\ inflight[p].op = op
    /\ inflight[p].during = {}

\* A step of a call that reads and writes no file: the calls in progress and
\* the files are what they were.
reader_step == inflight' = inflight /\ srcFile' = srcFile /\ idxFile' = idxFile

\* C11: while one build_kb_index replaces a persisted index, load_kb_index
\* returns the old index or the new one, whole, and a search whose query was
\* embedded returns results when both indexes hold chunks.
C11_OldOrNewIndex ==
    [][\A p \in Procs :
         (/\ reader_step
          /\ writing_alone(p, "build")
          /\ ~load_kb_index(inflight[p].before).isNone)
           => /\ last'.op = "load"
                   => last'.index \in {load_kb_index(inflight[p].before),
                                        load_kb_index(FileOf(inflight[p].content))}
              /\ (/\ last'.op = "search"
                  /\ last'.failAt = 0
                  /\ chunk_count(inflight[p].before) >= 1
                  /\ chunk_count(FileOf(inflight[p].content)) >= 1)
                   => last'.results # <<>>]_vars

\* C12: while one save_kb_source_text(new) overwrites an existing document
\* old, get_kb_source_text and the read of the source in build_kb_index give
\* what they give on old or what they give on new.
C12_OldOrNewSource ==
    [][\A p \in Procs :
         (/\ writing_alone(p, "save")
          /\ inflight[p].before.exists)
           => LET old == get_kb_source_text(inflight[p].before, siteDb)
                  new == get_kb_source_text(FileOf(inflight[p].content), siteDb)
              IN  /\ (reader_step /\ last'.op = "get")
                       => last'.text \in {old, new}
                  /\ \A q \in Procs \ {p} :
                        (inflight[q].pc = "idle" /\ inflight'[q].op = "build")
                          => inflight'[q].text \in {old, new}]_vars

\* C13: when two build_kb_index calls that overlapped in time have both
\* returned without an error, the index file holds exactly the payload of the
\* call that returned last.
C13_LastWriterWins ==
    \A p, q \in Procs :
        (/\ p # q
         /\ inflight[p].pc = "done" /\ inflight[p].op = "build" /\ inflight[p].ok
         /\ inflight[q].pc = "done" /\ inflight[q].op = "build" /\ inflight[q].ok
         /\ q \in inflight[p].during
         /\ inflight[p].rank < inflight[q].rank)
          => idxFile = FileOf(inflight[q].content)

\* C14: save_kb_source_text leaves the index file as it is, so that
\* load_kb_index and search_kb return after it what they returned before it;
\* only build_kb_index changes the index file.
C14_SaveKeepsIndex ==
    [][/\ last'.op = "save"
          => /\ idxFile' = idxFile
             /\ load_kb_index(idxFile') = load_kb_index(idxFile)
             /\ \A v \in Vectors :
                   search_kb(idxFile', TRUE, ProviderAnswer(v), TopKDefault)
                     = search_kb(idxFile, TRUE, ProviderAnswer(v), TopKDefault)
       /\ idxFile' # idxFile => last'.op = "build"]_vars

\* The document was cleared while the index holds the chunks of the earlier
\* document.
C14_Witness ==
    /\ last.op = "save"
    /\ last.ok
    /\ last.content = <<>>
    /\ chunk_count(idxFile) >= 2

\* The site settings give get_kb_source_text nothing to append.
no_augmentation(db) == ~db.up \/ ~db.hasRow \/ site_parts(db.row) = <<>>

\* C15: with no augmentation from the site settings, get_kb_source_text
\* right after save_kb_source_text(c) returns exactly c, the content of the
\* latest save.
C15_SourceRoundTrip ==
    [][(/\ last.op = "save"
        /\ last.ok
        /\ last'.op = "get"
        /\ no_augmentation(siteDb))
          => last'.text = last.content]_vars

\* The document as a read of the source file gives it, '' without a file.
document_read(file) == IF file.exists THEN universal_newlines(file.data) ELSE <<>>

\* C16, as claimed: get_kb_source_text raises nothing; it returns '' when no
\* document was persisted, and the persisted document alone when the site
\* settings cannot be read.
C16_EmptyWithoutDocument ==
    last.op = "get"
      => /\ last.ok
         /\ ~srcFile.exists => last.text = <<>>
         /\ ~siteDb.up => last.text = document_read(srcFile)

\* C16, amended: get_kb_source_text raises nothing; it returns '' when no
\* document was persisted and the site settings give nothing to append, and
\* the persisted document alone when the site settings cannot be read.
C16_GetNeverFails ==
    last.op = "get"
      => /\ last.ok
         /\ (~srcFile.exists /\ no_augmentation(siteDb)) => last.text = <<>>
         /\ ~siteDb.up => last.text = document_read(srcFile)

\* The document returned while the site settings cannot be read.
C16_Witness ==
    /\ last.op = "get"
    /\ ~siteDb.up
    /\ srcFile.exists
    /\ last.text # <<>>

\* C17, as claimed: build_kb_index right after save_kb_source_text('')
\* returns and persists an index with count 0 and no chunks (its write not
\* being cut short), whatever the index file and the site settings hold.
C17_EmptySourceEmptyIndex ==
    [][(/\ last.op = "save" /\ last.ok /\ last.content = <<>>
        /\ last'.op = "build" /\ last'.err # "OSError")
          => /\ last'.ok
             /\ ~last'.index.isNone
             /\ last'.index.value.count = 0
             /\ last'.index.value.chunks = <<>>
             /\ load_kb_index(idxFile') = last'.index]_vars

\* C17, amended: the same when the site settings give get_kb_source_text
\* nothing to append, whatever the index file holds and with or without a
\* credential and a provider.
C17_EmptySourceNoAugmentation ==
    [][(/\ last.op = "save" /\ last.ok /\ last.content = <<>>
        /\ last'.op = "build" /\ last'.err # "OSError"
        /\ no_augmentation(siteDb))
          => /\ last'.ok
             /\ ~last'.index.isNone
             /\ last'.index.value.count = 0
             /\ last'.index.value.chunks = <<>>
             /\ load_kb_index(idxFile') = last'.index]_vars

\* A rebuild over the cleared document that replaced an index with chunks by
\* the empty index, without a credential.
C17_Witness ==
    /\ last.op = "build"
    /\ last.ok
    /\ last.hadMore
    /\ ~apiKey
    /\ srcFile = FileOf(<<>>)
    /\ no_augmentation(siteDb)
    /\ chunk_count(idxFile) = 0
    /\ ~load_kb_index(idxFile).isNone

\* s begins with prefix.
begins_with(s, prefix) ==
    Len(prefix) <= Len(s) /\ SubSeq(s, 1, Len(prefix)) = prefix

\* The last n characters of s, all of s when it has no more than n.
last_chars(s, n) == SubSeq(s, Max(1, Len(s) - n + 1), Len(s))

\* The number of pieces of max_chars characters a paragraph is cut into.
pieces_of(p, max_chars) == (Len(p) + max_chars - 1) \div max_chars

\* The chunks pre[k + 1], pre[k + 2], ... are the pieces of paragraph p: each
\* the next max_chars characters of p, the last one what is left of it.
pieces_at(pre, k, p, max_chars) ==
    /\ k + pieces_of(p, max_chars) <= Len(pre)
    /\ \A j \in 1..pieces_of(p, max_chars) :
          /\ pre[k + j] = SubSeq(p, (j - 1) * max_chars + 1,
                                 Min(j * max_chars, Len(p)))
          /\ j < pieces_of(p, max_chars) => Len(pre[k + j]) = max_chars

\* C18: no chunk of the paragraph pass, before the overlap step, is longer
\* than max_chars, and a paragraph longer than max_chars is found there as
\* pieces of exactly max_chars characters followed by a last, shorter or
\* equal, piece.
C18_PreOverlapBound ==
    last.op = "chunk"
      => /\ \A i \in 1..Len(last.pre) : Len(last.pre[i]) \in 1..last.max_chars
         /\ \A n \in 1..Len(paragraphs_of(last.text)) :
               LET p == paragraphs_of(last.text)[n]
               IN  Len(p) > last.max_chars
                     => \E k \in 0..Len(last.pre) :
                           pieces_at(last.pre, k, p, last.max_chars)

\* A paragraph cut into two whole pieces and a shorter one, after a chunk of
\* a paragraph that fits.
C18_Witness ==
    /\ last.op = "chunk"
    /\ last.max_chars = 1
    /\ Len(last.pre) = 4
    /\ \E n \in 1..Len(paragraphs_of(last.text)) :
          /\ Len(paragraphs_of(last.text)[n]) = 3
          /\ pieces_at(last.pre, 1, paragraphs_of(last.text)[n], 1)

\* Chunk i of the paragraph pass is a piece of a paragraph longer than
\* max_chars.
from_long_paragraph(pre, i, text, max_chars) ==
    \E n \in 1..Len(paragraphs_of(text)) :
        /\ Len(paragraphs_of(text)[n]) > max_chars
        /\ \E k \in 0..(i - 1) :
              /\ pieces_at(pre, k, paragraphs_of(text)[n], max_chars)
              /\ i <= k + pieces_of(paragraphs_of(text)[n], max_chars)

\* C19, as claimed: the text of every chunk stored in an index, overlap
\* prefix included, is at most max_chars characters long, unless the chunk
\* comes from a paragraph that is itself longer than max_chars.
C19_StoredWithinMaxChars ==
    last.op = "chunk"
      => \A i \in 1..Len(last.stored) :
            \/ Len(last.stored[i].text) <= last.max_chars
            \/ from_long_paragraph(last.pre, i, last.text, last.max_chars)

\* C19, amended: the text of every chunk stored in an index is at most
\* max_chars + overlap + 1 characters long (the chunk, the characters carried
\* over and the newline that joins them), and at most max_chars when it is
\* the first chunk or when overlap is 0.
C19_StoredWithinOverlapBound ==
    last.op = "chunk"
      => /\ Len(last.stored) = Len(last.pre)
         /\ \A i \in 1..Len(last.stored) :
               Len(last.stored[i].text)
                 <= IF i = 1 \/ last.overlap = 0 THEN last.max_chars
                    ELSE last.max_chars + last.overlap + 1

\* A stored chunk of max_chars + overlap + 1 characters, out of paragraphs
\* that each fit in max_chars.
C19_Witness ==
    /\ last.op = "chunk"
    /\ last.overlap >= 1
    /\ \A n \in 1..Len(paragraphs_of(last.text)) :
          Len(paragraphs_of(last.text)[n]) <= last.max_chars
    /\ \E i \in 1..Len(last.stored) :
          Len(last.stored[i].text) = last.max_chars + last.overlap + 1

\* C20, as claimed: with overlap > 0 and two chunks or more, every chunk
\* after the first begins with the last overlap characters of the chunk
\* before it as the paragraph pass left it, or with the whole of it when it
\* has no more than overlap characters.
C20_BeginsWithTail ==
    (last.op = "chunk" /\ last.overlap > 0 /\ Len(last.chunks) >= 2)
      => \A i \in 2..Len(last.chunks) :
            /\ last_chars(last.pre[i - 1], last.overlap) # <<>>
            /\ begins_with(last.chunks[i],
                           last_chars(last.pre[i - 1], last.overlap))

\* C20, amended: every chunk after the first begins with those characters
\* once the whitespace around them is trimmed, which are those characters
\* themselves when they neither begin nor end with whitespace.
C20_BeginsWithTrimmedTail ==
    (last.op = "chunk" /\ last.overlap > 0 /\ Len(last.chunks) >= 2)
      => /\ Len(last.chunks) = Len(last.pre)
         /\ \A i \in 2..Len(last.chunks) :
               LET tail == last_chars(last.pre[i - 1], last.overlap)
               IN  /\ tail # <<>>
                   /\ begins_with(last.chunks[i], strip(tail))
                   /\ (Head(tail) \notin Whitespace
                         /\ tail[Len(tail)] \notin Whitespace)
                        => begins_with(last.chunks[i], tail)

\* Three chunks with an overlap of 2: the second begins with the two last
\* characters of the first, the third with the last character of the second,
\* the space before it trimmed.
C20_Witness ==
    /\ last.op = "chunk"
    /\ last.overlap = 2
    /\ Len(last.chunks) = 3
    /\ begins_with(last.chunks[2], last_chars(last.pre[1], 2))
    /\ Len(last_chars(last.pre[1], 2)) = 2
    /\ Head(last_chars(last.pre[2], 2)) = SP
    /\ last.chunks[3] # <<>>
    /\ ~begins_with(last.chunks[3], last_chars(last.pre[2], 2))

\* The sequences of ss one after the other.
RECURSIVE concat_all(_)
concat_all(ss) == IF ss = <<>> THEN <<>> ELSE Head(ss) \o concat_all(Tail(ss))

\* s without its newlines.
without_newlines(s) == SelectSeq(s, LAMBDA c : c # NL)

\* s without prefix in front, s itself when it does not begin with it.
drop_prefix(s, prefix) ==
    IF begins_with(s, prefix) THEN SubSeq(s, Len(prefix) + 1, Len(s)) ELSE s

\* Chunk i of a call without what the overlap step put in front of it: the
\* last overlap characters of the chunk before and a newline, trimmed.
non_overlap_content(call, i) ==
    IF i = 1 \/ call.overlap = 0 THEN call.chunks[i]
    ELSE drop_prefix(call.chunks[i],
                     lstrip(last_chars(call.pre[i - 1], call.overlap) \o <<NL>>))

\* The chunks of a call hold, after their overlap prefixes and in order, the
\* characters of the paragraphs of the document, each once.
covers_paragraphs(call) ==
    without_newlines(concat_all([i \in 1..Len(call.chunks) |->
                                    non_overlap_content(call, i)]))
      = concat_all(paragraphs_of(call.text))

\* C21: the chunks without their overlap prefixes, one after the other, give
\* back the non-empty trimmed paragraphs of the document in order, nothing
\* of a paragraph or of a hard-split paragraph lost or repeated.
C21_Coverage ==
    last.op = "chunk" => covers_paragraphs(last)

\* C21 for the documents without a paragraph longer than max_chars.
C21_CoverageWithoutHardSplit ==
    (/\ last.op = "chunk"
     /\ \A n \in 1..Len(paragraphs_of(last.text)) :
           Len(paragraphs_of(last.text)[n]) <= last.max_chars)
      => covers_paragraphs(last)

\* C27: a piece of a paragraph longer than max_chars is a chunk of the
\* result exactly as it was sliced: nothing of the chunk before it is put in
\* front of it and it is not trimmed.
C27_HardSplitBypassesOverlap ==
    last.op = "chunk"
      => /\ Len(last.chunks) = Len(last.pre)
         /\ \A i \in 1..Len(last.pre) :
               from_long_paragraph(last.pre, i, last.text, last.max_chars)
                 => last.chunks[i] = last.pre[i]

\* v is empty or has only zeros.
zero_vector(v) == \A i \in 1..Len(v) : v[i] = 0

\* C22: _cosine_similarity gives 0.0, and divides by nothing, when one of
\* its vectors is empty or all-zero; search_kb raises nothing over chunks
\* with such embeddings and gives them the score 0.0.
C22_ZeroVectorScoresZero ==
    /\ last.op = "cosine"
         => /\ last.score.den # 0
            /\ (zero_vector(last.a) \/ zero_vector(last.b))
                  => last.score = ZeroScore
    /\ (last.op = "search" /\ last.failAt = 0)
         => /\ last.ok
            /\ Len(last.results) = Min(TopKDefault, Len(stored_chunks(idxFile)))
            /\ \A k \in 1..Len(last.results) :
                  /\ last.results[k].score.den # 0
                  /\ zero_vector(stored_chunks(idxFile)[last.results[k].id].embedding)
                        => last.results[k].score = ZeroScore

\* A search that ranked a chunk similar to the query before a chunk with an
\* all-zero embedding, which scored 0.0.
C22_Witness ==
    /\ last.op = "search"
    /\ Len(last.results) = 2
    /\ last.results[1].score # ZeroScore
    /\ stored_chunks(idxFile)[last.results[2].id].embedding = <<0, 0>>
    /\ last.results[2].score = ZeroScore

\* C23: without a credential _generate_embedding raises the configuration
\* error (ValueError) and makes no call to the provider; with a credential
\* a failure of the provider is the provider error (RuntimeError), never
\* the configuration error; the failed call is the last one made, so nothing
\* is tried again.
C23_ConfigOrProviderError ==
    /\ last.op = "build"
         => LET n == Len(_chunk_text(last.text, MaxChars, Overlap))
            IN  /\ (~apiKey /\ n > 0)
                      => (~last.ok /\ last.err = "ValueError" /\ last.calls = 0)
                /\ apiKey => last.err # "ValueError"
                /\ (apiKey /\ providerDown /\ n > 0)
                      => (~last.ok /\ last.err = "RuntimeError" /\ last.calls = 1)
                /\ last.err = "RuntimeError"
                      => (apiKey /\ last.calls = last.failAt /\ last.calls <= n)
                /\ last.calls <= n
    /\ (last.op = "search" /\ chunk_count(idxFile) > 0)
         => /\ ~apiKey => (last.err = "ValueError" /\ last.calls = 0)
            /\ apiKey => last.err # "ValueError"
            /\ (apiKey /\ providerDown) => last.err = "RuntimeError"
            /\ last.err = "RuntimeError" => (apiKey /\ last.calls = 1)

\* A rebuild of a source with two chunks, without a credential: the
\* configuration error and no call to the provider.
C23_Witness ==
    /\ last.op = "build"
    /\ ~apiKey
    /\ Len(_chunk_text(last.text, MaxChars, Overlap)) = 2
    /\ last.err = "ValueError"
    /\ last.calls = 0

\* C24: load_kb_index called right after a successful build_kb_index returns
\* what that build returned: the same updated_at, count and chunks (ids,
\* texts and embeddings) in the same order.
C24_BuildLoadRoundTrip ==
    [][(last.op = "build" /\ last.ok /\ last'.op = "load")
         => /\ last'.ok
            /\ ~last'.index.isNone
            /\ last'.index.value.updated_at = last.index.value.updated_at
            /\ last'.index.value.count = last.index.value.count
            /\ last'.index.value.chunks = last.index.value.chunks
            /\ last'.index = last.index]_vars

\* A load that returned an index of two chunks built at the latest time.
C24_Witness ==
    /\ last.op = "load"
    /\ ~last.index.isNone
    /\ last.index.value.updated_at = MaxClock
    /\ last.index.value.count = 2
    /\ Len(last.index.value.chunks) = 2

\* C29: get_kb_source_text, load_kb_index and search_kb leave the source
\* file and the index file as they were, whatever they return; a
\* build_kb_index that fails leaves the source file as it was.
C29_ReadOnlyFrame ==
    [][/\ last'.op \in {"get", "load", "search"}
            => (srcFile' = srcFile /\ idxFile' = idxFile)
       /\ (last'.op = "build" /\ ~last'.ok) => srcFile' = srcFile]_vars

\* A search over a saved source and a built index whose query could not be
\* embedded.
C29_Witness ==
    /\ last.op = "search"
    /\ last.failAt # 0
    /\ srcFile.exists
    /\ chunk_count(idxFile) >= 2
    /\ last.results = <<>>

\* The index file loads as an index with at least one chunk.
searchable(file) ==
    LET index == load_kb_index(file)
    IN  ~index.raised /\ ~index.isNone /\ index.value.chunks # <<>>

\* C30, as claimed: over an absent, unparseable or empty index search_kb
\* returns the empty list without a call to the provider; otherwise it
\* calls the provider exactly once.
C30_OneCallOtherwise ==
    last.op = "search"
      => /\ ~searchable(idxFile)
              => (last.ok /\ last.results = <<>> /\ last.calls = 0)
         /\ searchable(idxFile) => last.calls = 1

\* C30, amended: over an absent, unparseable or empty index search_kb
\* returns the empty list without a call to the provider and without
\* asking for a credential; otherwise it calls the provider exactly once
\* when a credential is configured, and not at all when none is.
C30_OneCallWithCredential ==
    last.op = "search"
      => /\ ~searchable(idxFile)
              => /\ last.ok
                 /\ last.results = <<>>
                 /\ last.calls = 0
                 /\ last.err = ""
         /\ (searchable(idxFile) /\ apiKey) => last.calls = 1
         /\ (searchable(idxFile) /\ ~apiKey)
              => (last.calls = 0 /\ last.err = "ValueError")

\* A search over an index file cut short, without a credential: no error,
\* no call.
C30_Witness ==
    /\ last.op = "search"
    /\ idxFile.exists
    /\ ~searchable(idxFile)
    /\ ~apiKey
    /\ last.calls = 0
    /\ last.err = ""
    /\ last.results = <<>>

\* C26: in the paragraph pass a paragraph joins the buffer exactly when
\* len(buffer) + len(paragraph) + 1 <= max_chars.  Only when: a chunk of
\* several paragraphs has at most max_chars characters.  When: a chunk of
\* whole paragraphs ends only before a paragraph that would take it past
\* max_chars, so a paragraph that fills it to max_chars exactly is in it.
\* The chunks hold the paragraphs in order when none is longer than
\* max_chars.
C26_BoundaryPolicy ==
    last.op = "chunk"
      => /\ \A i \in 1..Len(last.pre) :
               Len(paragraphs_of(last.pre[i])) > 1
                 => Len(last.pre[i]) <= last.max_chars
         /\ \A i \in 1..(Len(last.pre) - 1) :
               (/\ ~from_long_paragraph(last.pre, i, last.text, last.max_chars)
                /\ ~from_long_paragraph(last.pre, i + 1, last.text, last.max_chars))
                 => Len(last.pre[i]) + Len(Head(paragraphs_of(last.pre[i + 1]))) + 1
                      > last.max_chars
         /\ (\A n \in 1..Len(paragraphs_of(last.text)) :
                Len(paragraphs_of(last.text)[n]) <= last.max_chars)
               => concat_all([i \in 1..Len(last.pre) |-> paragraphs_of(last.pre[i])])
                    = paragraphs_of(last.text)

\* Two paragraphs joined into a chunk of max_chars characters exactly, and
\* a third paragraph in the chunk after it.
C26_Witness ==
    /\ last.op = "chunk"
    /\ Len(last.pre) = 2
    /\ Len(paragraphs_of(last.pre[1])) = 2
    /\ Len(last.pre[1]) = last.max_chars
    /\ ~from_long_paragraph(last.pre, 2, last.text, last.max_chars)

\* C25: a rebuild asked by an administrator that fails is answered with
\* HTTP 500 and the error, never with the success message; a query by a
\* known user with a non-blank query is answered with HTTP 200 and a list
\* of results, whatever the index file holds, whatever the provider does
\* and whatever else the body holds.
C25_HttpErrorPropagation ==
    /\ (last.op = "kb_reindex" /\ last.role = "admin" /\ ~last.built)
         => (last.status = 500 /\ last.error # "" /\ last.message = "")
    /\ (last.op = "kb_query" /\ last.role # "none" /\ strip(last.query) # <<>>)
         => (last.status = 200 /\ last.has_results)

\* The texts of the chunks, in order.
texts_of(chunks) == [i \in 1..Len(chunks) |-> chunks[i].text]

\* C28: build_kb_index chunks the source text it read when it started: the
\* index it hands to _write_file, and the index file once it has returned,
\* hold the chunks of that text, whatever was saved as the source since.
C28_IndexOfSnapshot ==
    \A p \in Procs :
        (inflight[p].op = "build" /\ inflight[p].ok)
          => LET snapshot == _chunk_text(inflight[p].text, MaxChars, Overlap)
             IN  /\ inflight[p].pc \in {"open", "write", "done"}
                      => texts_of(json_loads(inflight[p].content).value.chunks)
                           = snapshot
                 /\ inflight[p].pc = "done"
                      => /\ ~load_kb_index(idxFile).isNone
                         /\ texts_of(load_kb_index(idxFile).value.chunks) = snapshot

\* A rebuild that has its embeddings and is about to write, after a save
\* that completed since it read the source: the source now chunks differently.
C28_Witness ==
    /\ last.op = "embed"
    /\ \E p \in Procs :
          /\ inflight[p].op = "build"
          /\ inflight[p].pc = "open"
          /\ Len(_chunk_text(inflight[p].text, MaxChars, Overlap)) = 2
          /\ texts_of(json_loads(inflight[p].content).value.chunks)
                = _chunk_text(inflight[p].text, MaxChars, Overlap)
          /\ srcFile = FileOf(<<"a">>)

=============================================================================
